---- MODULE Spec2Model ----
(***************************************************************************)
(* A model of the gone 6502 core: the Cpu register file, the Bus it reads  *)
(* and writes, the addressing-mode decoder, the instructions, tick and the *)
(* three interrupt entries.  Every Go method is an operator from the Cpu   *)
(* value before the call to the Cpu value after it.                        *)
(***************************************************************************)
EXTENDS Integers, Sequences, FiniteSets, TLC

VARIABLES
    cpu,    \* the Cpu struct, its Bus included
    err,    \* whether the last tick returned an error
    arg,    \* the arguments of the last call the driver made
    pre,    \* the Cpu as it was before that call
    start,  \* the Cpu as the driver set it up
    hist    \* the calls the driver made so far, oldest first

vars == <<cpu, err, arg, pre, start, hist>>

---------------------------------------------------------------------------
(* Bytes, words and the bit operations Go applies to them.                 *)

Byte == 0..255

Addr == 0..65535

\* byte arithmetic wraps (uint8)
ToByte(n) == n % 256

\* address arithmetic wraps (uint16)
ToWord(n) == n % 65536

Bit(b, i) == (b \div (2 ^ i)) % 2

BitAnd(a, b) ==
    LET f[i \in 0..8] ==
            IF i = 8 THEN 0
            ELSE (IF Bit(a, i) = 1 /\ Bit(b, i) = 1 THEN 2 ^ i ELSE 0) + f[i + 1]
    IN f[0]

BitOr(a, b) ==
    LET f[i \in 0..8] ==
            IF i = 8 THEN 0
            ELSE (IF Bit(a, i) = 1 \/ Bit(b, i) = 1 THEN 2 ^ i ELSE 0) + f[i + 1]
    IN f[0]

BitXor(a, b) ==
    LET f[i \in 0..8] ==
            IF i = 8 THEN 0
            ELSE (IF Bit(a, i) # Bit(b, i) THEN 2 ^ i ELSE 0) + f[i + 1]
    IN f[0]

\* addr & 0xff00
HighPart(addr) == (addr \div 256) * 256

\* addr & 0x00ff
LowPart(addr) == addr % 256

\* mask.Word(page, col): the 16-bit word with high byte page and low byte col
Word(page, col) == page * 256 + col

---------------------------------------------------------------------------
(* The Bus.  FakeRam is a zeroed 64 kB array; it is kept as the function   *)
(* of its non-zero cells.                                                  *)

Fetch(ram, addr) == IF addr \in DOMAIN ram THEN ram[addr] ELSE 0

Store(ram, addr, data) ==
    IF data = 0
    THEN [a \in (DOMAIN ram) \ {addr} |-> ram[a]]
    ELSE (addr :> data) @@ ram

\* Write with a pointer receiver: the assignment reaches the caller's Bus
BusWriteShared(b, addr, data) == [b EXCEPT !.FakeRam = Store(b.FakeRam, addr, data)]

\* func (b Bus) Write: the receiver b is a copy of the caller's Bus, array
\* included, so the assignment lands in the copy and the caller's Bus is
\* what it was
BusWrite(b, addr, data) ==
    LET copy == [b EXCEPT !.FakeRam = Store(b.FakeRam, addr, data)]
    IN  b

BusRead(b, addr) == Fetch(b.FakeRam, addr)

Read(c, addr) == BusRead(c.Bus, addr)

Write(c, addr, data) == [c EXCEPT !.Bus = BusWrite(c.Bus, addr, data)]

---------------------------------------------------------------------------
(* The opcode table: byte, instruction, base cycles, addressing mode.      *)

OpcodeRows == {
    <<\h69, "ADC", 2, "Immediate">>, <<\h65, "ADC", 3, "ZeroPage">>,
    <<\h75, "ADC", 4, "ZeroPageX">>, <<\h6D, "ADC", 4, "Absolute">>,
    <<\h7D, "ADC", 4, "AbsoluteX">>, <<\h79, "ADC", 4, "AbsoluteY">>,
    <<\h61, "ADC", 6, "IndirectX">>, <<\h71, "ADC", 5, "IndirectY">>,
    <<\h29, "AND", 2, "Immediate">>, <<\h25, "AND", 3, "ZeroPage">>,
    <<\h35, "AND", 4, "ZeroPageX">>, <<\h2D, "AND", 4, "Absolute">>,
    <<\h3D, "AND", 4, "AbsoluteX">>, <<\h39, "AND", 4, "AbsoluteY">>,
    <<\h21, "AND", 6, "IndirectX">>, <<\h31, "AND", 5, "IndirectY">>,
    <<\h0A, "ASL", 2, "Accumulator">>, <<\h06, "ASL", 5, "ZeroPage">>,
    <<\h16, "ASL", 6, "ZeroPageX">>, <<\h0E, "ASL", 6, "Absolute">>,
    <<\h1E, "ASL", 7, "AbsoluteX">>, <<\h24, "BIT", 3, "ZeroPage">>,
    <<\h2C, "BIT", 4, "Absolute">>, <<\h00, "BRK", 7, "Implied">>,
    <<\hC9, "CMP", 2, "Immediate">>, <<\hC5, "CMP", 3, "ZeroPage">>,
    <<\hD5, "CMP", 4, "ZeroPageX">>, <<\hCD, "CMP", 4, "Absolute">>,
    <<\hDD, "CMP", 4, "AbsoluteX">>, <<\hD9, "CMP", 4, "AbsoluteY">>,
    <<\hC1, "CMP", 6, "IndirectX">>, <<\hD1, "CMP", 5, "IndirectY">>,
    <<\hE0, "CPX", 2, "Immediate">>, <<\hE4, "CPX", 3, "ZeroPage">>,
    <<\hEC, "CPX", 4, "Absolute">>, <<\hC0, "CPY", 2, "Immediate">>,
    <<\hC4, "CPY", 3, "ZeroPage">>, <<\hCC, "CPY", 4, "Absolute">>,
    <<\hC6, "DEC", 5, "ZeroPage">>, <<\hD6, "DEC", 6, "ZeroPageX">>,
    <<\hCE, "DEC", 6, "Absolute">>, <<\hDE, "DEC", 7, "AbsoluteX">>,
    <<\h49, "EOR", 2, "Immediate">>, <<\h45, "EOR", 3, "ZeroPage">>,
    <<\h55, "EOR", 4, "ZeroPageX">>, <<\h4D, "EOR", 4, "Absolute">>,
    <<\h5D, "EOR", 4, "AbsoluteX">>, <<\h59, "EOR", 4, "AbsoluteY">>,
    <<\h41, "EOR", 6, "IndirectX">>, <<\h51, "EOR", 5, "IndirectY">>,
    <<\hE6, "INC", 5, "ZeroPage">>, <<\hF6, "INC", 6, "ZeroPageX">>,
    <<\hEE, "INC", 6, "Absolute">>, <<\hFE, "INC", 7, "AbsoluteX">>,
    <<\h4C, "JMP", 3, "Absolute">>, <<\h6C, "JMP", 5, "Indirect">>,
    <<\h20, "JSR", 6, "Absolute">>, <<\hA9, "LDA", 2, "Immediate">>,
    <<\hA5, "LDA", 3, "ZeroPage">>, <<\hB5, "LDA", 4, "ZeroPageX">>,
    <<\hAD, "LDA", 4, "Absolute">>, <<\hBD, "LDA", 4, "AbsoluteX">>,
    <<\hB9, "LDA", 4, "AbsoluteY">>, <<\hA1, "LDA", 6, "IndirectX">>,
    <<\hB1, "LDA", 5, "IndirectY">>, <<\hA2, "LDX", 2, "Immediate">>,
    <<\hA6, "LDX", 3, "ZeroPage">>, <<\hB6, "LDX", 4, "ZeroPageY">>,
    <<\hAE, "LDX", 4, "Absolute">>, <<\hBE, "LDX", 4, "AbsoluteY">>,
    <<\hA0, "LDY", 2, "Immediate">>, <<\hA4, "LDY", 3, "ZeroPage">>,
    <<\hB4, "LDY", 4, "ZeroPageX">>, <<\hAC, "LDY", 4, "Absolute">>,
    <<\hBC, "LDY", 4, "AbsoluteX">>, <<\h4A, "LSR", 2, "Accumulator">>,
    <<\h46, "LSR", 5, "ZeroPage">>, <<\h56, "LSR", 6, "ZeroPageX">>,
    <<\h4E, "LSR", 6, "Absolute">>, <<\h5E, "LSR", 7, "AbsoluteX">>,
    <<\hEA, "NOP", 2, "Implied">>, <<\h09, "ORA", 2, "Immediate">>,
    <<\h05, "ORA", 3, "ZeroPage">>, <<\h15, "ORA", 4, "ZeroPageX">>,
    <<\h0D, "ORA", 4, "Absolute">>, <<\h1D, "ORA", 4, "AbsoluteX">>,
    <<\h19, "ORA", 4, "AbsoluteY">>, <<\h01, "ORA", 6, "IndirectX">>,
    <<\h11, "ORA", 5, "IndirectY">>, <<\h2A, "ROL", 2, "Accumulator">>,
    <<\h26, "ROL", 5, "ZeroPage">>, <<\h36, "ROL", 6, "ZeroPageX">>,
    <<\h2E, "ROL", 6, "Absolute">>, <<\h3E, "ROL", 7, "AbsoluteX">>,
    <<\h6A, "ROR", 2, "Accumulator">>, <<\h66, "ROR", 5, "ZeroPage">>,
    <<\h76, "ROR", 6, "ZeroPageX">>, <<\h6E, "ROR", 6, "Absolute">>,
    <<\h7E, "ROR", 7, "AbsoluteX">>, <<\h40, "RTI", 6, "Implied">>,
    <<\h60, "RTS", 6, "Implied">>, <<\hE9, "SBC", 2, "Immediate">>,
    <<\hE5, "SBC", 3, "ZeroPage">>, <<\hF5, "SBC", 4, "ZeroPageX">>,
    <<\hED, "SBC", 4, "Absolute">>, <<\hFD, "SBC", 4, "AbsoluteX">>,
    <<\hF9, "SBC", 4, "AbsoluteY">>, <<\hE1, "SBC", 6, "IndirectX">>,
    <<\hF1, "SBC", 5, "IndirectY">>, <<\h85, "STA", 3, "ZeroPage">>,
    <<\h95, "STA", 4, "ZeroPageX">>, <<\h8D, "STA", 4, "Absolute">>,
    <<\h9D, "STA", 5, "AbsoluteX">>, <<\h99, "STA", 5, "AbsoluteY">>,
    <<\h81, "STA", 6, "IndirectX">>, <<\h91, "STA", 6, "IndirectY">>,
    <<\h86, "STX", 3, "ZeroPage">>, <<\h96, "STX", 4, "ZeroPageY">>,
    <<\h8E, "STX", 4, "Absolute">>, <<\h84, "STY", 3, "ZeroPage">>,
    <<\h94, "STY", 4, "ZeroPageX">>, <<\h8C, "STY", 4, "Absolute">>,
    <<\h18, "CLC", 2, "Implied">>, <<\h38, "SEC", 2, "Implied">>,
    <<\h58, "CLI", 2, "Implied">>, <<\h78, "SEI", 2, "Implied">>,
    <<\hB8, "CLV", 2, "Implied">>, <<\hD8, "CLD", 2, "Implied">>,
    <<\hF8, "SED", 2, "Implied">>, <<\hAA, "TAX", 2, "Implied">>,
    <<\h8A, "TXA", 2, "Implied">>, <<\hCA, "DEX", 2, "Implied">>,
    <<\hE8, "INX", 2, "Implied">>, <<\hA8, "TAY", 2, "Implied">>,
    <<\h98, "TYA", 2, "Implied">>, <<\h88, "DEY", 2, "Implied">>,
    <<\hC8, "INY", 2, "Implied">>, <<\h10, "BPL", 2, "Relative">>,
    <<\h30, "BMI", 2, "Relative">>, <<\h50, "BVC", 2, "Relative">>,
    <<\h70, "BVS", 2, "Relative">>, <<\h90, "BCC", 2, "Relative">>,
    <<\hB0, "BCS", 2, "Relative">>, <<\hD0, "BNE", 2, "Relative">>,
    <<\hF0, "BEQ", 2, "Relative">>, <<\h9A, "TXS", 2, "Implied">>,
    <<\hBA, "TSX", 2, "Implied">>, <<\h48, "PHA", 3, "Implied">>,
    <<\h68, "PLA", 4, "Implied">>, <<\h08, "PHP", 3, "Implied">>,
    <<\h28, "PLP", 4, "Implied">>
    }

LegalBytes == {r[1] : r \in OpcodeRows}

Opcodes ==
    [b \in LegalBytes |->
        LET r == CHOOSE r \in OpcodeRows : r[1] = b
        IN  [Instruction |-> r[2], Name |-> r[2], Cycles |-> r[3],
             AddressingMode |-> r[4]]]

\* fetch(b): the table entry, or an error for a byte the table lacks
fetchLenient(b) ==
    IF b \in LegalBytes
    THEN [oc |-> Opcodes[b], err |-> FALSE]
    ELSE [oc |-> Opcodes[\hEA], err |-> FALSE]

fetch(b) ==
    IF b \in LegalBytes
    THEN [oc |-> Opcodes[b], err |-> FALSE]
    ELSE [oc |-> [Instruction |-> "", Name |-> "", Cycles |-> 0,
                  AddressingMode |-> "Implied"],
          err |-> TRUE]

---------------------------------------------------------------------------
(* decode: the addressing modes.                                           *)

\* the operand byte at the program counter, and the one after it
Operand1(c) == Read(c, c.ProgramCounter)

Operand2(c) == Read(c, ToWord(c.ProgramCounter + 1))

\* c.Cycles++ when the indexed address left the page of the base
CrossCharge(c, addr, page) ==
    IF HighPart(addr) # page * 256 THEN ToByte(c.Cycles + 1) ELSE c.Cycles

decodeImmediate(c) ==
    [c EXCEPT !.AbsAddress = c.ProgramCounter,
              !.ProgramCounter = ToWord(c.ProgramCounter + 1)]

decodeZeroPage(c) ==
    [c EXCEPT !.AbsAddress = LowPart(Operand1(c)),
              !.ProgramCounter = ToWord(c.ProgramCounter + 1)]

decodeZeroPageX(c) ==
    [c EXCEPT !.AbsAddress = LowPart(ToByte(Operand1(c) + c.X)),
              !.ProgramCounter = ToWord(c.ProgramCounter + 1)]

decodeZeroPageY(c) ==
    [c EXCEPT !.AbsAddress = LowPart(ToByte(Operand1(c) + c.Y)),
              !.ProgramCounter = ToWord(c.ProgramCounter + 1)]

\* Relative without the step back for offsets of 0x80 and above
decodeRelativeUnsigned(c) ==
    LET rel  == Operand1(c)
        pc   == ToWord(c.ProgramCounter + 1)
    IN  [c EXCEPT !.ProgramCounter = pc,
                  !.AbsAddress = ToWord(pc + rel)]

decodeRelative(c) ==
    LET rel  == Operand1(c)
        pc   == ToWord(c.ProgramCounter + 1)
        fwd  == ToWord(pc + rel)
    IN  [c EXCEPT !.ProgramCounter = pc,
                  !.AbsAddress = IF rel >= 128 THEN ToWord(fwd + 65536 - 256)
                                 ELSE fwd]

\* Absolute with the second c.ProgramCounter++ left out
decodeAbsoluteShort(c) ==
    LET col  == Operand1(c)
        page == Operand2(c)
    IN  [c EXCEPT !.ProgramCounter = ToWord(c.ProgramCounter + 1),
                  !.AbsAddress = Word(page, col)]

decodeAbsolute(c) ==
    LET col  == Operand1(c)
        page == Operand2(c)
    IN  [c EXCEPT !.ProgramCounter = ToWord(c.ProgramCounter + 2),
                  !.AbsAddress = Word(page, col)]

decodeAbsoluteX(c) ==
    LET col  == Operand1(c)
        page == Operand2(c)
        addr == ToWord(Word(page, col) + c.X)
    IN  [c EXCEPT !.ProgramCounter = ToWord(c.ProgramCounter + 2),
                  !.AbsAddress = addr,
                  !.Cycles = CrossCharge(c, addr, page)]

decodeAbsoluteY(c) ==
    LET col  == Operand1(c)
        page == Operand2(c)
        addr == ToWord(Word(page, col) + c.Y)
    IN  [c EXCEPT !.ProgramCounter = ToWord(c.ProgramCounter + 2),
                  !.AbsAddress = addr,
                  !.Cycles = CrossCharge(c, addr, page)]

decodeIndirectX(c) ==
    LET ptr  == Operand1(c)
        page == Read(c, LowPart(ToByte(ptr + c.X)))
        col  == Read(c, LowPart(ToByte(ptr + 1 + c.X)))
    IN  [c EXCEPT !.ProgramCounter = ToWord(c.ProgramCounter + 1),
                  !.AbsAddress = Word(page, col)]

decodeIndirectY(c) ==
    LET ptr  == Operand1(c)
        page == Read(c, LowPart(ptr))
        col  == Read(c, LowPart(ToByte(ptr + 1)))
        addr == ToWord(Word(page, col) + c.Y)
    IN  [c EXCEPT !.ProgramCounter = ToWord(c.ProgramCounter + 1),
                  !.AbsAddress = addr,
                  !.Cycles = CrossCharge(c, addr, page)]

\* Indirect reading the high byte at ptr + 1 always, across the page end
decodeIndirectNextPage(c) ==
    LET ptrCol   == Operand1(c)
        ptrPage  == Operand2(c)
        ptr      == Word(ptrPage, ptrCol)
        realCol  == Read(c, ptr)
        realPage == Read(c, ToWord(ptr + 1))
    IN  [c EXCEPT !.ProgramCounter = ToWord(c.ProgramCounter + 2),
                  !.AbsAddress = Word(realPage, realCol)]

decodeIndirect(c) ==
    LET ptrCol   == Operand1(c)
        ptrPage  == Operand2(c)
        ptr      == Word(ptrPage, ptrCol)
        realCol  == Read(c, ptr)
        realPage == IF ptrCol = 255 THEN Read(c, HighPart(ptr))
                    ELSE Read(c, ToWord(ptr + 1))
    IN  [c EXCEPT !.ProgramCounter = ToWord(c.ProgramCounter + 2),
                  !.AbsAddress = Word(realPage, realCol)]

\* the closing c.M = c.Read(c.AbsAddress) of every mode that does not return early
Latch(c) == [c EXCEPT !.M = Read(c, c.AbsAddress)]

decode(c, a) ==
    CASE a = "Implied"     -> c
      [] a = "Accumulator" -> [c EXCEPT !.M = c.Accumulator]
      [] a = "Immediate"   -> Latch(decodeImmediate(c))
      [] a = "ZeroPage"    -> Latch(decodeZeroPage(c))
      [] a = "ZeroPageX"   -> Latch(decodeZeroPageX(c))
      [] a = "ZeroPageY"   -> Latch(decodeZeroPageY(c))
      [] a = "Relative"    -> Latch(decodeRelative(c))
      [] a = "Absolute"    -> Latch(decodeAbsolute(c))
      [] a = "AbsoluteX"   -> Latch(decodeAbsoluteX(c))
      [] a = "AbsoluteY"   -> Latch(decodeAbsoluteY(c))
      [] a = "IndirectX"   -> Latch(decodeIndirectX(c))
      [] a = "IndirectY"   -> Latch(decodeIndirectY(c))
      [] a = "Indirect"    -> Latch(decodeIndirect(c))

---------------------------------------------------------------------------
(* The instructions.                                                       *)

StackAddr(c) == 256 + c.Stack

\* setNZ with the sign test b > 0x80 in place of b&0x80 > 0
setNZStrict(c, b) == [c EXCEPT !.Flags.Zero = (b = 0), !.Flags.Negative = (b > 128)]

setNZ(c, b) == [c EXCEPT !.Flags.Zero = (b = 0), !.Flags.Negative = (b >= 128)]

branch(c, cond) ==
    IF cond
    THEN [c EXCEPT !.Cycles = ToByte(IF c.PageCrossed THEN c.Cycles + 2
                                     ELSE c.Cycles + 1),
                   !.ProgramCounter = c.AbsAddress,
                   !.PageCrossed = FALSE]
    ELSE c

\* ADC with a decimal adjust of the low digit when Decimal is set
ADCDecimal(c) ==
    LET sum    == ToByte(c.Accumulator + c.M)
        carry  == IF sum < c.Accumulator THEN TRUE ELSE c.Flags.Carry
        bin    == IF carry THEN ToByte(sum + 1) ELSE sum
        acc    == IF c.Flags.Decimal /\ bin % 16 > 9 THEN ToByte(bin + 6) ELSE bin
        operandsLike == (acc >= 128) = (c.M >= 128)
        sumUnlike    == (acc >= 128) # (sum >= 128)
    IN  [setNZ([c EXCEPT !.Flags.Carry = carry, !.Accumulator = acc], acc)
            EXCEPT !.Flags.Overflow = operandsLike /\ sumUnlike]

ADC(c) ==
    LET sum    == ToByte(c.Accumulator + c.M)
        carry  == IF sum < c.Accumulator THEN TRUE ELSE c.Flags.Carry
        acc    == IF carry THEN ToByte(sum + 1) ELSE sum
        operandsLike == (acc >= 128) = (c.M >= 128)
        sumUnlike    == (acc >= 128) # (sum >= 128)
    IN  [setNZ([c EXCEPT !.Flags.Carry = carry, !.Accumulator = acc], acc)
            EXCEPT !.Flags.Overflow = operandsLike /\ sumUnlike]

AND(c) ==
    LET a == BitAnd(c.Accumulator, c.M)
    IN  setNZ([c EXCEPT !.Accumulator = a], a)

ASL(c) ==
    LET m == ToByte(c.M * 4)
    IN  setNZ([c EXCEPT !.Flags.Carry = (c.M >= 128), !.M = m], m)

BCC(c) == branch(c, ~c.Flags.Carry)

BCS(c) == branch(c, c.Flags.Carry)

BEQ(c) == branch(c, c.Flags.Zero)

BIT(c) ==
    [c EXCEPT !.Flags.Zero = (BitAnd(c.M, c.Accumulator) > 0),
              !.Flags.Negative = (c.M >= 128),
              !.Flags.Overflow = (Bit(c.M, 6) = 1)]

BMI(c) == branch(c, c.Flags.Negative)

BNE(c) == branch(c, ~c.Flags.Zero)

BPL(c) == branch(c, ~c.Flags.Negative)

BVC(c) == branch(c, ~c.Flags.Overflow)

BVS(c) == branch(c, c.Flags.Overflow)

CLC(c) == [c EXCEPT !.Flags.Carry = FALSE]

CLD(c) == [c EXCEPT !.Flags.Decimal = FALSE]

CLI(c) == [c EXCEPT !.Flags.DisableInterrupt = FALSE]

CLV(c) == [c EXCEPT !.Flags.Overflow = FALSE]

\* the compare with Carry from reg > M in place of reg >= M
compareStrict(c, reg) ==
    [c EXCEPT !.Flags.Carry = (reg > c.M),
              !.Flags.Zero = (reg = c.M),
              !.Flags.Negative = (ToByte(reg + 256 - c.M) >= 128)]

compare(c, reg) ==
    [c EXCEPT !.Flags.Carry = (reg >= c.M),
              !.Flags.Zero = (reg = c.M),
              !.Flags.Negative = (ToByte(reg + 256 - c.M) >= 128)]

CMP(c) == compare(c, c.Accumulator)

CPX(c) == compare(c, c.X)

CPY(c) == compare(c, c.Y)

DEC(c) ==
    LET m == ToByte(c.M + 255)
    IN  setNZ([c EXCEPT !.M = m], m)

DEX(c) ==
    LET x == ToByte(c.X + 255)
    IN  setNZ([c EXCEPT !.X = x], x)

DEY(c) ==
    LET y == ToByte(c.Y + 255)
    IN  setNZ([c EXCEPT !.Y = y], y)

EOR(c) ==
    LET a == BitXor(c.Accumulator, c.M)
    IN  setNZ([c EXCEPT !.Accumulator = a], a)

INC(c) ==
    LET m == ToByte(c.M + 1)
    IN  setNZ([c EXCEPT !.M = m], m)

INX(c) ==
    LET x == ToByte(c.X + 1)
    IN  setNZ([c EXCEPT !.X = x], x)

INY(c) ==
    LET y == ToByte(c.Y + 1)
    IN  setNZ([c EXCEPT !.Y = y], y)

JMP(c) == [c EXCEPT !.ProgramCounter = c.M]

JSR(c) == c

LDA(c) == setNZ([c EXCEPT !.Accumulator = c.M], c.M)

LDX(c) == setNZ([c EXCEPT !.X = c.M], c.M)

LDY(c) == setNZ([c EXCEPT !.Y = c.M], c.M)

LSR(c) ==
    LET m == c.M \div 4
    IN  setNZ([c EXCEPT !.Flags.Carry = (c.M % 2 = 1), !.M = m], m)

NOP(c) == c

ORA(c) ==
    LET a == BitOr(c.Accumulator, c.M)
    IN  setNZ([c EXCEPT !.Accumulator = a], a)

PHA(c) == [Write(c, StackAddr(c), c.Accumulator) EXCEPT !.Stack = ToByte(c.Stack + 255)]

flagsByte(c) ==
    (IF c.Flags.Carry THEN 1 ELSE 0)
    + (IF c.Flags.Zero THEN 2 ELSE 0)
    + (IF c.Flags.DisableInterrupt THEN 4 ELSE 0)
    + (IF c.Flags.Decimal THEN 8 ELSE 0)
    + (IF c.Flags.B THEN 16 ELSE 0)
    + (IF c.Flags.Unused THEN 32 ELSE 0)
    + (IF c.Flags.Overflow THEN 64 ELSE 0)
    + (IF c.Flags.Negative THEN 128 ELSE 0)

PHP(c) == [Write(c, StackAddr(c), flagsByte(c)) EXCEPT !.Stack = ToByte(c.Stack + 255)]

PLA(c) ==
    LET s == ToByte(c.Stack + 1)
        a == Read(c, 256 + s)
    IN  setNZ([c EXCEPT !.Stack = s, !.Accumulator = a], a)

PLP(c) ==
    LET s        == ToByte(c.Stack + 1)
        newFlags == Read(c, 256 + s)
    IN  [c EXCEPT !.Stack = s,
                  !.Flags = [Carry            |-> Bit(newFlags, 0) = 1,
                             Zero             |-> Bit(newFlags, 1) = 1,
                             DisableInterrupt |-> Bit(newFlags, 2) = 1,
                             Decimal          |-> Bit(newFlags, 3) = 1,
                             B                |-> Bit(newFlags, 4) = 1,
                             Unused           |-> Bit(newFlags, 5) = 1,
                             Overflow         |-> Bit(newFlags, 6) = 1,
                             Negative         |-> Bit(newFlags, 7) = 1]]

ROL(c) ==
    LET carry == c.M >= 128
        m     == BitOr(ToByte(c.M * 4), IF carry THEN 1 ELSE 0)
    IN  setNZ([c EXCEPT !.Flags.Carry = carry, !.M = m], m)

ROR(c) ==
    LET carry == c.M % 2 = 1
        m     == BitOr(c.M \div 4, IF carry THEN 128 ELSE 0)
    IN  setNZ([c EXCEPT !.Flags.Carry = carry, !.M = m], m)

RTI(c) ==
    LET p    == PLP(c)
        s1   == ToByte(p.Stack + 1)
        col  == Read(p, s1)
        s2   == ToByte(s1 + 1)
        page == Read(p, s2)
    IN  [p EXCEPT !.Stack = s2, !.ProgramCounter = Word(page, col)]

RTS(c) ==
    LET s == ToByte(c.Stack + 1)
    IN  [c EXCEPT !.Stack = s, !.ProgramCounter = Read(c, 256 + s) + 1]

SBC(c) == ADC([c EXCEPT !.M = 255 - c.M])

SEC(c) == [c EXCEPT !.Flags.Carry = TRUE]

SED(c) == [c EXCEPT !.Flags.Decimal = TRUE]

SEI(c) == [c EXCEPT !.Flags.DisableInterrupt = TRUE]

STA(c) == Write([c EXCEPT !.M = c.Accumulator], c.AbsAddress, c.Accumulator)

STX(c) == Write([c EXCEPT !.M = c.X], c.AbsAddress, c.X)

STY(c) == Write([c EXCEPT !.M = c.Y], c.AbsAddress, c.Y)

TAX(c) == setNZ([c EXCEPT !.X = c.Accumulator], c.Accumulator)

TAY(c) == setNZ([c EXCEPT !.Y = c.Accumulator], c.Accumulator)

TSX(c) ==
    LET s == ToByte(c.Stack + 1)
        x == Read(c, 256 + s)
    IN  setNZ([c EXCEPT !.Stack = s, !.X = x], x)

TXA(c) == setNZ([c EXCEPT !.Accumulator = c.X], c.X)

TXS(c) == [Write(c, StackAddr(c), c.X) EXCEPT !.Stack = ToByte(c.Stack + 255)]

TYA(c) == setNZ([c EXCEPT !.Accumulator = c.Y], c.Y)

---------------------------------------------------------------------------
(* The interrupt entries, and BRK, which enters through nmi.               *)

\* the three pushes of an interrupt entry: PC high, PC low, then the flags
\* with B cleared and Unused and DisableInterrupt set
pushEntry(c) ==
    LET c1 == [Write(c, StackAddr(c), c.ProgramCounter \div 256)
                  EXCEPT !.Stack = ToByte(c.Stack + 255)]
        c2 == [Write(c1, StackAddr(c1), LowPart(c1.ProgramCounter))
                  EXCEPT !.Stack = ToByte(c1.Stack + 255)]
        c3 == [c2 EXCEPT !.Flags.B = FALSE, !.Flags.Unused = TRUE,
                         !.Flags.DisableInterrupt = TRUE]
    IN  [Write(c3, StackAddr(c3), flagsByte(c3))
            EXCEPT !.Stack = ToByte(c3.Stack + 255)]

\* c.AbsAddress = vector; PC = the word read there
loadVector(c, vector) ==
    LET col  == Read(c, vector)
        page == Read(c, ToWord(vector + 1))
    IN  [c EXCEPT !.AbsAddress = vector, !.ProgramCounter = Word(page, col)]

\* nmi held back by DisableInterrupt, as irq is
nmiMasked(c) ==
    IF c.Flags.DisableInterrupt
    THEN c
    ELSE [loadVector(pushEntry(c), \hFFFA) EXCEPT !.Cycles = 8]

nmi(c) == [loadVector(pushEntry(c), \hFFFA) EXCEPT !.Cycles = 8]

reset(c) ==
    [loadVector(c, \hFFFC) EXCEPT
        !.Accumulator = 0, !.X = 0, !.Y = 0, !.Stack = \hFD,
        !.Flags = [Negative |-> FALSE, Overflow |-> FALSE, Unused |-> TRUE,
                   DisableInterrupt |-> FALSE, Zero |-> FALSE, Carry |-> FALSE,
                   B |-> FALSE, Decimal |-> FALSE],
        !.M = 0, !.AbsAddress = 0, !.Cycles = 8]

\* irq without the DisableInterrupt test
irqUnmasked(c) == [loadVector(pushEntry(c), \hFFFE) EXCEPT !.Cycles = 7]

irq(c) ==
    IF c.Flags.DisableInterrupt
    THEN c
    ELSE [loadVector(pushEntry(c), \hFFFE) EXCEPT !.Cycles = 7]

BRK(c) == nmi([c EXCEPT !.ProgramCounter = ToWord(c.ProgramCounter + 1)])

---------------------------------------------------------------------------
(* tick: fetch, decode, execute, then charge the opcode's cycles.          *)

\* op.Instruction(c)
Instruction(i, c) ==
    CASE i = "ADC" -> ADC(c)
      [] i = "AND" -> AND(c)
      [] i = "ASL" -> ASL(c)
      [] i = "BCC" -> BCC(c)
      [] i = "BCS" -> BCS(c)
      [] i = "BEQ" -> BEQ(c)
      [] i = "BIT" -> BIT(c)
      [] i = "BMI" -> BMI(c)
      [] i = "BNE" -> BNE(c)
      [] i = "BPL" -> BPL(c)
      [] i = "BRK" -> BRK(c)
      [] i = "BVC" -> BVC(c)
      [] i = "BVS" -> BVS(c)
      [] i = "CLC" -> CLC(c)
      [] i = "CLD" -> CLD(c)
      [] i = "CLI" -> CLI(c)
      [] i = "CLV" -> CLV(c)
      [] i = "CMP" -> CMP(c)
      [] i = "CPX" -> CPX(c)
      [] i = "CPY" -> CPY(c)
      [] i = "DEC" -> DEC(c)
      [] i = "DEX" -> DEX(c)
      [] i = "DEY" -> DEY(c)
      [] i = "EOR" -> EOR(c)
      [] i = "INC" -> INC(c)
      [] i = "INX" -> INX(c)
      [] i = "INY" -> INY(c)
      [] i = "JMP" -> JMP(c)
      [] i = "JSR" -> JSR(c)
      [] i = "LDA" -> LDA(c)
      [] i = "LDX" -> LDX(c)
      [] i = "LDY" -> LDY(c)
      [] i = "LSR" -> LSR(c)
      [] i = "NOP" -> NOP(c)
      [] i = "ORA" -> ORA(c)
      [] i = "PHA" -> PHA(c)
      [] i = "PHP" -> PHP(c)
      [] i = "PLA" -> PLA(c)
      [] i = "PLP" -> PLP(c)
      [] i = "ROL" -> ROL(c)
      [] i = "ROR" -> ROR(c)
      [] i = "RTI" -> RTI(c)
      [] i = "RTS" -> RTS(c)
      [] i = "SBC" -> SBC(c)
      [] i = "SEC" -> SEC(c)
      [] i = "SED" -> SED(c)
      [] i = "SEI" -> SEI(c)
      [] i = "STA" -> STA(c)
      [] i = "STX" -> STX(c)
      [] i = "STY" -> STY(c)
      [] i = "TAX" -> TAX(c)
      [] i = "TAY" -> TAY(c)
      [] i = "TSX" -> TSX(c)
      [] i = "TXA" -> TXA(c)
      [] i = "TXS" -> TXS(c)
      [] i = "TYA" -> TYA(c)

\* tick without the assignment c.Cycles = op.Cycles
tickUncharged(c) ==
    LET b == Read(c, c.ProgramCounter)
        f == fetch(b)
    IN  IF f.err
        THEN [c |-> c, err |-> TRUE]
        ELSE LET c1 == [c EXCEPT !.ProgramCounter = ToWord(c.ProgramCounter + 1)]
                 c2 == decode(c1, f.oc.AddressingMode)
                 c3 == Instruction(f.oc.Instruction, c2)
             IN  [c   |-> IF c3.PageCrossed
                          THEN [c3 EXCEPT !.Cycles = ToByte(c3.Cycles + 1),
                                          !.PageCrossed = FALSE]
                          ELSE c3,
                  err |-> FALSE]

tick(c) ==
    LET b == Read(c, c.ProgramCounter)
        f == fetch(b)
    IN  IF f.err
        THEN [c |-> c, err |-> TRUE]
        ELSE LET c1 == [c EXCEPT !.ProgramCounter = ToWord(c.ProgramCounter + 1)]
                 c2 == decode(c1, f.oc.AddressingMode)
                 c3 == Instruction(f.oc.Instruction, c2)
                 c4 == [c3 EXCEPT !.Cycles = f.oc.Cycles]
             IN  [c   |-> IF c4.PageCrossed
                          THEN [c4 EXCEPT !.Cycles = ToByte(c4.Cycles + 1),
                                          !.PageCrossed = FALSE]
                          ELSE c4,
                  err |-> FALSE]

---------------------------------------------------------------------------
(* The Cpu as drivers set it up.                                           *)

\* the flags a status byte stands for, bit 0 first: C Z I D B U V N
FlagsOf(p) ==
    [Carry |-> Bit(p, 0) = 1, Zero |-> Bit(p, 1) = 1,
     DisableInterrupt |-> Bit(p, 2) = 1, Decimal |-> Bit(p, 3) = 1,
     B |-> Bit(p, 4) = 1, Unused |-> Bit(p, 5) = 1,
     Overflow |-> Bit(p, 6) = 1, Negative |-> Bit(p, 7) = 1]

\* Cpu{Bus: &mem.Bus{}}: every field zero
ZeroCpu ==
    [Bus |-> [FakeRam |-> <<>>], Flags |-> FlagsOf(0),
     Accumulator |-> 0, X |-> 0, Y |-> 0, Stack |-> 0, ProgramCounter |-> 0,
     M |-> 0, AbsAddress |-> 0, PageCrossed |-> FALSE, Cycles |-> 0]

\* where the test programs are loaded
ProgBase == \h8000

\* LoadProgram, given the bytes the hex text stands for
LoadBytes(ram, bytes, addr) ==
    LET f[i \in 0..Len(bytes)] ==
            IF i = 0 THEN ram
            ELSE Store(f[i - 1], ToWord(addr + i - 1), bytes[i])
    IN  f[Len(bytes)]

\* the program of TestThirty: 10 times 3 by repeated addition
ThirtyProgram ==
    <<\hA2, \h0A, \h8E, \h00, \h00, \hA2, \h03, \h8E, \h01, \h00, \hAC, \h00,
      \h00, \hA9, \h00, \h18, \h6D, \h01, \h00, \h88, \hD0, \hFA, \h8D, \h02,
      \h00, \hEA, \hEA, \hEA>>

\* memory the drivers fill in around the program: the three vectors, the
\* cells of the indirect-JMP example, and some zero-page and stack-page data
Background ==
    (\hFFFA :> \h00) @@ (\hFFFB :> \h90) @@ (\hFFFC :> \h00) @@ (\hFFFD :> \hC0)
    @@ (\hFFFE :> \h00) @@ (\hFFFF :> \hA0)
    @@ (\h02FF :> \h34) @@ (\h0200 :> \h12) @@ (\h0300 :> \hAB)
    @@ (\h0000 :> \h03) @@ (\h0001 :> \h02) @@ (\h0002 :> \h44) @@ (\h0003 :> \h02)
    @@ (\h0080 :> \h81) @@ (\h00FA :> \h0F) @@ (\h00FF :> \hFE)
    @@ (\h0100 :> \h5A) @@ (\h0101 :> \h3C) @@ (\h01FE :> \hFF) @@ (\h01FF :> \h81)

\* the register values the drivers start from: A, X, Y, S and the status byte
Profiles ==
    { <<\h00, \h00, \h00, \h00, \h00>>,
      <<\h42, \h01, \h01, \hFD, \h20>>,
      <<\h80, \hFF, \h02, \hFF, \hEF>>,
      <<\hFF, \h7F, \h80, \h01, \h25>>,
      <<\h50, \h10, \hFF, \h80, \h62>>,
      <<\h01, \h02, \h00, \hFE, \hA1>> }

Setup(ram, r, pc) ==
    [ZeroCpu EXCEPT !.Bus.FakeRam = ram, !.Accumulator = r[1], !.X = r[2],
                    !.Y = r[3], !.Stack = r[4], !.Flags = FlagsOf(r[5]),
                    !.ProgramCounter = pc]

\* operand bytes of the single-instruction programs
OperandLo == {\h02, \h80, \hFA, \hFF}

OperandHi == {\h00, \h02}

\* one instruction: any opcode byte followed by two operand bytes
SinglePrograms == {<<b, lo, hi>> : b \in Byte, lo \in OperandLo, hi \in OperandHi}

\* PHA, LDA #w, PLA
PushPullPrograms == {<<\h48, \hA9, w, \h68>> : w \in {\h00, \h99}}

InitWith(c) ==
    /\ cpu = c
    /\ start = c
    /\ pre = c
    /\ err = FALSE
    /\ arg = <<>>
    /\ hist = <<>>

---------------------------------------------------------------------------
(* The calls a driver makes.                                               *)

LastOp == IF hist = <<>> THEN "init" ELSE hist[Len(hist)]

Called(name, a, c, e) ==
    /\ cpu' = c
    /\ err' = e
    /\ arg' = a
    /\ pre' = cpu
    /\ hist' = Append(hist, name)
    /\ UNCHANGED start

\* each call is open to the driver until it has made n calls
Tick(n) == Len(hist) < n /\ Called("tick", <<>>, tick(cpu).c, tick(cpu).err)

Irq(n) == Len(hist) < n /\ Called("irq", <<>>, irq(cpu), FALSE)

Nmi(n) == Len(hist) < n /\ Called("nmi", <<>>, nmi(cpu), FALSE)

Reset(n) == Len(hist) < n /\ Called("reset", <<>>, reset(cpu), FALSE)

\* addresses and bytes the driver writes through Cpu.Write
WriteAddrs == {\h0000, \h01FD, \h8000}

WriteData == {\h00, \h42}

CpuWrite(n) ==
    /\ Len(hist) < n
    /\ \E a \in WriteAddrs, v \in WriteData :
          Called("write", <<a, v>>, Write(cpu, a, v), FALSE)

\* an instruction method called on its own, c.M being its operand
CallADC(n) == Len(hist) < n /\ Called("ADC", <<>>, ADC(cpu), FALSE)

CallSBC(n) == Len(hist) < n /\ Called("SBC", <<>>, SBC(cpu), FALSE)

---------------------------------------------------------------------------
(* TestThirty: the multiply program, ticked over and over.                 *)

MaxThirtyTicks == 800

\* the program loaded, the reset vector pointed at it, PC at its start
InitThirty ==
    InitWith([ZeroCpu EXCEPT
                !.Bus.FakeRam = Store(Store(LoadBytes(<<>>, ThirtyProgram, ProgBase),
                                            \hFFFC, \h00),
                                      \hFFFD, \h80),
                !.ProgramCounter = ProgBase])

NextThirty == Tick(MaxThirtyTicks)

SpecThirty == InitThirty /\ [][NextThirty]_vars

---------------------------------------------------------------------------
(* Single instructions and short programs, ticked from every register      *)
(* profile.                                                                *)

MaxTicks == 3

InitTick ==
    \E p \in SinglePrograms \cup PushPullPrograms, r \in Profiles :
        InitWith(Setup(LoadBytes(Background, p, ProgBase), r, ProgBase))

NextTick == Tick(MaxTicks)

SpecTick == InitTick /\ [][NextTick]_vars

---------------------------------------------------------------------------
(* Interrupts and bus writes arriving between instructions.                *)

MaxSteps == 3

\* BRK, NOP, RTI, SEI then CLI, PLP, PHP, and a byte that is no opcode
DriverPrograms ==
    {<<\h00>>, <<\hEA>>, <<\h40>>, <<\h78, \h58>>, <<\h28>>, <<\h08>>, <<\h02>>}

Init ==
    \E p \in DriverPrograms, r \in Profiles :
        InitWith(Setup(LoadBytes(Background, p, ProgBase), r, ProgBase))

Next ==
    \/ Tick(MaxSteps)
    \/ Irq(MaxSteps)
    \/ Nmi(MaxSteps)
    \/ Reset(MaxSteps)
    \/ CpuWrite(MaxSteps)

Spec == Init /\ [][Next]_vars

---------------------------------------------------------------------------
(* ADC and SBC applied to sampled accumulators, operands, carry and        *)
(* decimal flags.                                                          *)

MaxAluOps == 2

\* the bytes 16k, 16k+1 and 16k+15
AluStride == 16

AluBytes == {x \in Byte : x % AluStride \in {0, 1, AluStride - 1}}

InitAlu ==
    \E a \in AluBytes, m \in AluBytes, carry \in BOOLEAN, d \in BOOLEAN :
        InitWith([ZeroCpu EXCEPT !.Accumulator = a, !.M = m,
                                 !.Flags.Carry = carry, !.Flags.Decimal = d])

NextAlu == CallADC(MaxAluOps) \/ CallSBC(MaxAluOps)

SpecAlu == InitAlu /\ [][NextAlu]_vars

---------------------------------------------------------------------------
(* The claims.                                                             *)

\* the opcode byte the last tick found at the program counter
PreByte == Read(pre, pre.ProgramCounter)

\* the memory cells that are non-zero before or after the last call
Cells == DOMAIN cpu.Bus.FakeRam \cup DOMAIN pre.Bus.FakeRam

\* C1: ticking the multiply program from PC=0x8000 with zeroed registers and
\* memory reaches the BRK at 0x801C, and there memory[0]=0x0A, memory[1]=0x03,
\* memory[2]=0x1E, A=0x1E, X=0x03 and Y=0x00.
C1_ThirtyAtBrk ==
    cpu.ProgramCounter = \h801C =>
        /\ Read(cpu, 0) = \h0A
        /\ Read(cpu, 1) = \h03
        /\ Read(cpu, 2) = \h1E
        /\ cpu.Accumulator = \h1E
        /\ cpu.X = \h03
        /\ cpu.Y = \h00

\* C2: after Cpu.Write(a, v) a read of a returns v, and no other address
\* has changed its content.
C2_WriteThenRead ==
    LastOp = "write" =>
        /\ Read(cpu, arg[1]) = arg[2]
        /\ \A a \in Cells \ {arg[1]} : Read(cpu, a) = Read(pre, a)

\* C3: reset leaves A=X=Y=0, S=0xFD, I=1 and U=1 with every other flag 0, PC
\* the little-endian word at 0xFFFC/0xFFFD and 8 pending cycles, and writes
\* nothing to memory.
C3_ResetState ==
    LastOp = "reset" =>
        /\ cpu.Accumulator = 0 /\ cpu.X = 0 /\ cpu.Y = 0
        /\ cpu.Stack = \hFD
        /\ cpu.Flags = [FlagsOf(0) EXCEPT !.DisableInterrupt = TRUE, !.Unused = TRUE]
        /\ cpu.ProgramCounter = Read(pre, \hFFFD) * 256 + Read(pre, \hFFFC)
        /\ cpu.Cycles = 8
        /\ cpu.Bus = pre.Bus

\* C4: ADC leaves A = (A + M + C) mod 256 and C = 1 exactly when A + M + C >
\* 255, with Z and N set from the new A.
C4_AdcSumAndCarry ==
    LastOp = "ADC" =>
        LET total == pre.Accumulator + pre.M + (IF pre.Flags.Carry THEN 1 ELSE 0)
        IN  /\ cpu.Accumulator = total % 256
            /\ cpu.Flags.Carry = (total > 255)
            /\ cpu.Flags.Zero = (cpu.Accumulator = 0)
            /\ cpu.Flags.Negative = (cpu.Accumulator >= 128)

\* C5: after ADC, V is 1 exactly when the old A and M have the same sign bit
\* and the sign bit of the result differs from it.
C5_AdcOverflow ==
    LastOp = "ADC" =>
        cpu.Flags.Overflow =
            (/\ (pre.Accumulator >= 128) = (pre.M >= 128)
             /\ (cpu.Accumulator >= 128) # (pre.Accumulator >= 128))

\* C6: with the I flag set, irq changes nothing: registers, flags, pending
\* cycles and every memory cell are as they were before the call.
C6_MaskedIrqChangesNothing ==
    (LastOp = "irq" /\ pre.Flags.DisableInterrupt) => cpu = pre

\* C6, its case: irq was called with I set
C6_MaskedIrqCalled == LastOp = "irq" /\ pre.Flags.DisableInterrupt

\* C7: after JMP, absolute or indirect, PC is the effective address the
\* decoder resolved; JMP ($02FF) with bus[0x02FF]=0x34, bus[0x0200]=0x12
\* sets PC=0x1234.
C7_JmpToEffectiveAddress ==
    (LastOp = "tick" /\ ~err /\ PreByte \in {\h4C, \h6C}) =>
        /\ cpu.ProgramCounter = cpu.AbsAddress
        /\ (/\ PreByte = \h6C
            /\ Read(pre, ToWord(pre.ProgramCounter + 1)) = \hFF
            /\ Read(pre, ToWord(pre.ProgramCounter + 2)) = \h02)
           => cpu.ProgramCounter = \h1234

BranchBytes == {\h10, \h30, \h50, \h70, \h90, \hB0, \hD0, \hF0}

\* whether the branch with opcode b is taken under flags f
BranchTaken(b, f) ==
    CASE b = \h10 -> ~f.Negative
      [] b = \h30 -> f.Negative
      [] b = \h50 -> ~f.Overflow
      [] b = \h70 -> f.Overflow
      [] b = \h90 -> ~f.Carry
      [] b = \hB0 -> f.Carry
      [] b = \hD0 -> ~f.Zero
      [] b = \hF0 -> f.Zero

\* the address after the two bytes of the branch the last tick ran
FallThrough == ToWord(pre.ProgramCounter + 2)

\* where that branch leads: the fall-through plus the sign-extended offset
BranchTarget ==
    LET d == Read(pre, ToWord(pre.ProgramCounter + 1))
    IN  ToWord(FallThrough + (IF d < 128 THEN d ELSE d + 65536 - 256))

\* C8: a branch leaves 2 pending cycles when not taken, 3 when taken to the
\* page of the fall-through PC, 4 when taken to another page.
C8_BranchCycles ==
    (LastOp = "tick" /\ ~err /\ PreByte \in BranchBytes) =>
        cpu.Cycles = IF ~BranchTaken(PreByte, pre.Flags) THEN 2
                     ELSE IF BranchTarget \div 256 = FallThrough \div 256 THEN 3
                     ELSE 4

\* C9: tick returns an error exactly when the byte at PC is no opcode of the
\* table, and then leaves registers, flags, operand, effective address,
\* pending cycles and memory as they were.
C9_IllegalOpcodeError ==
    LastOp = "tick" =>
        /\ err <=> PreByte \notin LegalBytes
        /\ err => cpu = pre

\* C9, its case: tick met a byte that is no opcode
C9_IllegalOpcodeMet == LastOp = "tick" /\ PreByte \notin LegalBytes /\ err

\* the driver loaded PHA, LDA #w, PLA and has ticked through all three
PushPullDone ==
    /\ Read(start, ProgBase) = \h48
    /\ Read(start, ToWord(ProgBase + 1)) = \hA9
    /\ Read(start, ToWord(ProgBase + 3)) = \h68
    /\ hist = <<"tick", "tick", "tick">>
    /\ ~err

\* C10: PHA with A=v and S=s, then any change of A, then PLA yields A=v and
\* S=s, also when the push wraps S from 0x00 to 0xFF.
C10_PushPullRoundTrip ==
    PushPullDone =>
        /\ cpu.Accumulator = start.Accumulator
        /\ cpu.Stack = start.Stack

---------------------------------------------------------------------------
(* PHP then PLP from every in-register flag state with B=0 and U=1.        *)

MaxFlagTicks == 2

\* the status bytes with B=0 and U=1: all 64 combinations of C Z I D V N
FlagBytes == {p \in Byte : Bit(p, 4) = 0 /\ Bit(p, 5) = 1}

\* stack pointers the pair starts from; at 0x00 the push wraps to 0xFF
FlagStacks == {\h00, \h80, \hFD, \hFF}

\* PHP, PLP
PhpPlpProgram == <<\h08, \h28>>

InitFlags ==
    \E p \in FlagBytes, s \in FlagStacks :
        InitWith(Setup(LoadBytes(Background, PhpPlpProgram, ProgBase),
                       <<\h00, \h00, \h00, s, p>>, ProgBase))

NextFlags == Tick(MaxFlagTicks)

SpecFlags == InitFlags /\ [][NextFlags]_vars

\* C11: from every flag state P with B=0 and U=1, PHP followed by PLP leaves
\* the in-register flags equal to P and S at its value before the PHP.
C11_PhpPlpRoundTrip ==
    (hist = <<"tick", "tick">> /\ PreByte = \h28 /\ ~err) =>
        /\ cpu.Flags = start.Flags
        /\ cpu.Stack = start.Stack

\* C12: BRK fetched at address a pushes high then low of a+2, then the
\* packed P with B=1 and U=1, sets I, loads PC from the little-endian word at
\* 0xFFFE/0xFFFF and leaves 7 pending cycles.
C12_BrkEntry ==
    (hist = <<"tick">> /\ PreByte = \h00 /\ ~err) =>
        LET ret    == ToWord(pre.ProgramCounter + 2)
            s      == pre.Stack
            pushed == BitOr(flagsByte(pre), \h30)
        IN  /\ Read(cpu, 256 + s) = ret \div 256
            /\ Read(cpu, 256 + ToByte(s + 255)) = ret % 256
            /\ Read(cpu, 256 + ToByte(s + 254)) = pushed
            /\ cpu.Stack = ToByte(s + 253)
            /\ cpu.Flags.DisableInterrupt
            /\ cpu.ProgramCounter = Read(pre, \hFFFF) * 256 + Read(pre, \hFFFE)
            /\ cpu.Cycles = 7

\* C13: nmi enters whether I is 0 or 1 and leaves PC the little-endian word
\* at 0xFFFA/0xFFFB, I=1 and 8 pending cycles; irq with I=0 enters and leaves
\* PC the little-endian word at 0xFFFE/0xFFFF, I=1 and 7 pending cycles.
C13_InterruptEntry ==
    /\ LastOp = "nmi" =>
          /\ cpu.ProgramCounter = Read(pre, \hFFFB) * 256 + Read(pre, \hFFFA)
          /\ cpu.Flags.DisableInterrupt
          /\ cpu.Cycles = 8
          /\ cpu.Stack = ToByte(pre.Stack + 253)
    /\ (LastOp = "irq" /\ ~pre.Flags.DisableInterrupt) =>
          /\ cpu.ProgramCounter = Read(pre, \hFFFF) * 256 + Read(pre, \hFFFE)
          /\ cpu.Flags.DisableInterrupt
          /\ cpu.Cycles = 7
          /\ cpu.Stack = ToByte(pre.Stack + 253)

\* C13, its case: irq entered with I clear, then nmi entered with the I that
\* irq had set
C13_BothEntered ==
    /\ hist = <<"irq", "nmi">>
    /\ ~start.Flags.DisableInterrupt
    /\ pre.Flags.DisableInterrupt
    /\ pre.ProgramCounter = \hA000
    /\ cpu.ProgramCounter = \h9000

\* the entry the last call made, if it made one
EntryTaken == LastOp = "nmi" \/ (LastOp = "irq" /\ ~pre.Flags.DisableInterrupt)

\* C14: an NMI entry, or an IRQ entry with I=0, taken at stack pointer s and
\* program counter p leaves high(p) at 0x0100|s, low(p) at 0x0100|(s-1) and
\* the packed P at 0x0100|(s-2), that byte having B=0 and the I of before the
\* entry, and ends with I set and S = (s-3) mod 256.
C14_EntryPushes ==
    EntryTaken =>
        LET s      == pre.Stack
            p      == pre.ProgramCounter
            before == flagsByte([pre EXCEPT !.Flags.B = FALSE, !.Flags.Unused = TRUE])
        IN  /\ Read(cpu, 256 + s) = p \div 256
            /\ Read(cpu, 256 + ToByte(s + 255)) = p % 256
            /\ Read(cpu, 256 + ToByte(s + 254)) = before
            /\ cpu.Flags.DisableInterrupt
            /\ cpu.Stack = ToByte(s + 253)

---------------------------------------------------------------------------
(* The addresses of the stack accesses.                                    *)

StackOps == {"PHA", "PHP", "PLA", "PLP", "RTS", "RTI", "BRK", "nmi", "irq"}

\* the addresses operation op, run at stack pointer c.Stack, passes to Read
\* and Write for its pushes and pulls, in the order of the accesses
StackAccesses(op, c) ==
    LET s == c.Stack
    IN  CASE op \in {"PHA", "PHP"} -> <<256 + s>>
          [] op \in {"PLA", "PLP", "RTS"} -> <<256 + ToByte(s + 1)>>
          [] op = "RTI" -> <<256 + ToByte(s + 1), ToByte(s + 2), ToByte(s + 3)>>
          [] op \in {"BRK", "nmi", "irq"} ->
                <<256 + s, 256 + ToByte(s + 255), 256 + ToByte(s + 254)>>

\* the operation the last call ran: the instruction a tick executed, or the
\* interrupt entry called
LastRun ==
    IF LastOp = "tick"
    THEN (IF err THEN "none" ELSE Opcodes[PreByte].Name)
    ELSE IF LastOp = "irq" /\ pre.Flags.DisableInterrupt THEN "none"
    ELSE LastOp

\* C15: every stack push or pull of PHA, PHP, PLA, PLP, RTS, RTI, BRK and of
\* the NMI and IRQ entries uses an address 0x0100 | S, within 0x0100..0x01FF;
\* so the PC that RTI pulls is the word whose low byte lies at 0x0100|(s+2)
\* and whose high byte lies at 0x0100|(s+3).
C15_StackAccessInStackPage ==
    /\ LastRun \in StackOps =>
          \A i \in DOMAIN StackAccesses(LastRun, pre) :
              StackAccesses(LastRun, pre)[i] \in \h0100..\h01FF
    /\ LastRun = "RTI" =>
          cpu.ProgramCounter = Read(pre, 256 + ToByte(pre.Stack + 3)) * 256
                               + Read(pre, 256 + ToByte(pre.Stack + 2))

---------------------------------------------------------------------------
(* loop: tick when no cycles are pending, then sleep one tick period and   *)
(* count one cycle off.  arg holds the pending count the last tick (or     *)
(* the start) left, and the sleeps that have elapsed since.                *)

MaxLoopSteps == 40

\* NOP, LDA #1 and a byte that is no opcode; BRK; a jump
LoopPrograms ==
    {ThirtyProgram, <<\hEA, \hA9, \h01, \h02>>, <<\h00>>, <<\h4C, \h00, \h80>>}

\* pending cycles when loop starts: none, or those reset or irq left
LoopStartCycles == {0, 7, 8}

InitLoop ==
    \E p \in LoopPrograms, n \in LoopStartCycles :
        LET c == [Setup(LoadBytes(Background, p, ProgBase),
                        <<\h00, \h00, \h00, \hFD, \h20>>, ProgBase)
                     EXCEPT !.Cycles = n]
        IN  /\ cpu = c
            /\ start = c
            /\ pre = c
            /\ err = FALSE
            /\ arg = <<n, 0>>
            /\ hist = <<>>

\* the loop is at the top of an iteration
AtTop == LastOp \in {"init", "sleep"} /\ ~err

\* the loop is at time.Sleep; a tick that failed has panicked instead
AtSleep == LastOp \in {"tick", "pass"} /\ ~err

\* if c.Cycles == 0 { err := c.tick(); if err != nil { panic(err) } }
LoopFetch(n) ==
    /\ Len(hist) < n
    /\ AtTop
    /\ cpu.Cycles = 0
    /\ Called("tick", <<tick(cpu).c.Cycles, 0>>, tick(cpu).c, tick(cpu).err)

\* c.Cycles != 0: the iteration goes straight to the sleep
LoopPass(n) ==
    /\ Len(hist) < n
    /\ AtTop
    /\ cpu.Cycles # 0
    /\ Called("pass", arg, cpu, FALSE)

\* the decrement left out
sleepKeep(c) == c

\* time.Sleep(Tick); c.Cycles--
sleepStep(c) == [c EXCEPT !.Cycles = ToByte(c.Cycles + 255)]

LoopSleep(n) ==
    /\ Len(hist) < n
    /\ AtSleep
    /\ Called("sleep", <<arg[1], arg[2] + 1>>, sleepStep(cpu), FALSE)

NextLoop ==
    \/ LoopFetch(MaxLoopSteps)
    \/ LoopPass(MaxLoopSteps)
    \/ LoopSleep(MaxLoopSteps)

SpecLoop == InitLoop /\ [][NextLoop]_vars

\* C16: loop fetches and executes exactly in the iterations that start with
\* no cycles pending; after a tick that leaves n cycles pending, the next
\* fetch is due when exactly n sleeps have elapsed, not before; and the
\* counter is never decremented at 0.
C16_LoopTiming ==
    /\ LastOp = "tick" => pre.Cycles = 0
    /\ LastOp = "pass" => pre.Cycles # 0
    /\ LastOp = "sleep" => pre.Cycles > 0
    /\ arg[2] <= arg[1]
    /\ AtTop => (cpu.Cycles = 0 <=> arg[2] = arg[1])
    /\ AtSleep => cpu.Cycles = arg[1] - arg[2]

\* C16, its case: a tick left n >= 2 cycles pending, n sleeps have elapsed
\* and the next fetch is due
C16_NextFetchDue ==
    /\ \E i \in DOMAIN hist : hist[i] = "tick"
    /\ LastOp = "sleep"
    /\ ~err
    /\ arg[1] >= 2
    /\ arg[2] = arg[1]
    /\ cpu.Cycles = 0

\* C17: after every successful tick, whatever the opcode, the registers and
\* the memory, at least 2 cycles are pending.
C17_AtLeastTwoCycles ==
    (LastOp = "tick" /\ ~err) => cpu.Cycles >= 2

\* C17, its case: a tick ran an instruction of the cheapest kind, here NOP
C17_CheapestRan ==
    /\ LastOp = "tick"
    /\ ~err
    /\ PreByte = \hEA
    /\ cpu.Cycles = 2

---------------------------------------------------------------------------
(* Power-up: reset, then instructions and interrupts from the reset        *)
(* vector's target.                                                        *)

MaxPowerSteps == 3

\* where the RESET vector of Background points
ResetTarget == \hC000

\* PLP; RTI; PHP then PLP; PHA then PLP; BRK; SEI, CLI, NOP
PowerPrograms ==
    {<<\h28>>, <<\h40>>, <<\h08, \h28>>, <<\h48, \h28>>, <<\h00>>,
     <<\h78, \h58, \hEA>>}

InitPower ==
    \E p \in PowerPrograms, r \in Profiles :
        InitWith(reset(Setup(LoadBytes(Background, p, ResetTarget), r, ProgBase)))

NextPower ==
    \/ Tick(MaxPowerSteps)
    \/ Irq(MaxPowerSteps)
    \/ Nmi(MaxPowerSteps)

SpecPower == InitPower /\ [][NextPower]_vars

\* C18: in every state reached from reset by instructions and interrupt
\* entries the in-register flags have B=0 and U=1, whatever byte PLP or RTI
\* pulled.
C18_BreakClearUnusedSet == ~cpu.Flags.B /\ cpu.Flags.Unused

\* C19: for all A, M and carry-in C, ADC with operand M followed by SBC with
\* the same M and the carry that the ADC left returns the accumulator to A.
C19_AdcSbcRoundTrip ==
    hist = <<"ADC", "SBC">> =>
        /\ pre.M = start.M
        /\ cpu.Accumulator = start.Accumulator

\* the result of the last ADC or SBC had it started with the other Decimal flag
DecimalTwin ==
    LET twin == [pre EXCEPT !.Flags.Decimal = ~pre.Flags.Decimal]
    IN  IF LastOp = "ADC" THEN ADC(twin) ELSE SBC(twin)

\* C20: two states that differ in the Decimal flag alone come out of ADC, and
\* of SBC, with the same A, C, V, Z and N, each with the D it started with.
C20_DecimalIgnored ==
    LastOp \in {"ADC", "SBC"} =>
        /\ cpu.Accumulator = DecimalTwin.Accumulator
        /\ cpu.Flags.Carry = DecimalTwin.Flags.Carry
        /\ cpu.Flags.Overflow = DecimalTwin.Flags.Overflow
        /\ cpu.Flags.Zero = DecimalTwin.Flags.Zero
        /\ cpu.Flags.Negative = DecimalTwin.Flags.Negative
        /\ cpu.Flags.Decimal = pre.Flags.Decimal
        /\ DecimalTwin.Flags.Decimal = ~pre.Flags.Decimal

\* C20, its case: ADC ran with D set on 0x0F + 0x01, where a decimal adder
\* would give 0x16, and gave the binary 0x10
C20_DecimalSetBinarySum ==
    /\ LastOp = "ADC"
    /\ pre.Flags.Decimal
    /\ ~pre.Flags.Carry
    /\ pre.Accumulator = \h0F
    /\ pre.M = \h01
    /\ cpu.Accumulator = \h10

---------------------------------------------------------------------------
(* One instruction at the usual program base and at the top of the         *)
(* address space, where the program counter wraps to 0.                    *)

MaxEdgeTicks == 1

EdgeBases == {ProgBase, \hFFFE, \hFFFF}

InitEdge ==
    \E p \in SinglePrograms, base \in EdgeBases, r \in Profiles :
        InitWith(Setup(LoadBytes(Background, p, base), r, base))

NextEdge == Tick(MaxEdgeTicks)

SpecEdge == InitEdge /\ [][NextEdge]_vars

\* the mnemonics whose semantics set the program counter
ControlNames ==
    {"BCC", "BCS", "BEQ", "BMI", "BNE", "BPL", "BVC", "BVS",
     "JMP", "JSR", "RTS", "RTI", "BRK"}

\* the number of operand bytes of an addressing mode
OperandSize(a) ==
    CASE a \in {"Implied", "Accumulator"} -> 0
      [] a \in {"Immediate", "ZeroPage", "ZeroPageX", "ZeroPageY",
                "IndirectX", "IndirectY", "Relative"} -> 1
      [] a \in {"Absolute", "AbsoluteX", "AbsoluteY", "Indirect"} -> 2

\* C21: for every legal opcode that is no branch, JMP, JSR, RTS, RTI or BRK,
\* a tick that starts at PC=a leaves PC = (a + 1 + k) mod 65536, k being the
\* operand size of the opcode's addressing mode.
C21_PcAdvance ==
    (/\ LastOp = "tick"
     /\ ~err
     /\ Opcodes[PreByte].Name \notin ControlNames) =>
        cpu.ProgramCounter =
            ToWord(pre.ProgramCounter + 1
                   + OperandSize(Opcodes[PreByte].AddressingMode))

\* C21, its case: LDA absolute fetched at 0xFFFF, so that PC wraps to 0x0002
C21_AbsoluteAtTop ==
    /\ LastOp = "tick"
    /\ ~err
    /\ PreByte = \hAD
    /\ pre.ProgramCounter = \hFFFF
    /\ cpu.ProgramCounter = \h0002

---------------------------------------------------------------------------
(* The instructions that end in setNZ, called on every byte.               *)

MaxNZCalls == 1

NZInstructions ==
    {"LDA", "LDX", "LDY", "TAX", "TAY", "TXA", "TYA", "AND", "ORA", "EOR",
     "INX", "INY", "DEX", "DEY", "PLA"}

\* how far the operand latch M lies from the accumulator's value
NZOperandGaps == {\h00, \h33, \hFF}

\* A, X, Y, M and the byte PLA will pull each run through all 256 values,
\* and differ from one another
InitNZ ==
    \E v \in Byte, w \in NZOperandGaps :
        InitWith([ZeroCpu EXCEPT
                    !.Accumulator = v,
                    !.X = ToByte(v + \h55),
                    !.Y = ToByte(v + \hAA),
                    !.M = ToByte(v + w),
                    !.Stack = \hFD,
                    !.Bus.FakeRam = Store(ZeroCpu.Bus.FakeRam, \h01FE, ToByte(v + \h77))])

CallNZ(n) ==
    /\ Len(hist) < n
    /\ \E i \in NZInstructions : Called(i, <<>>, Instruction(i, cpu), FALSE)

NextNZ == CallNZ(MaxNZCalls)

SpecNZ == InitNZ /\ [][NextNZ]_vars

\* the destination register of instruction i, as it is in c
DestinationOf(i, c) ==
    CASE i \in {"LDA", "TXA", "TYA", "AND", "ORA", "EOR", "PLA"} -> c.Accumulator
      [] i \in {"LDX", "TAX", "INX", "DEX"} -> c.X
      [] i \in {"LDY", "TAY", "INY", "DEY"} -> c.Y

\* C22: after LDA, LDX, LDY, TAX, TAY, TXA, TYA, AND, ORA, EOR, INX, INY, DEX,
\* DEY and PLA, Z is 1 exactly when the new value of the destination register
\* is 0, and N is bit 7 of that value.
C22_ZeroNegativeFromResult ==
    LastOp \in NZInstructions =>
        /\ cpu.Flags.Zero = (DestinationOf(LastOp, cpu) = 0)
        /\ cpu.Flags.Negative = (DestinationOf(LastOp, cpu) >= 128)

\* C22, its case: LDA loaded 0x80, the least value with bit 7 set
C22_LoadedSignBit ==
    /\ LastOp = "LDA"
    /\ pre.M = \h80
    /\ cpu.Accumulator = \h80
    /\ cpu.Flags.Negative
    /\ ~cpu.Flags.Zero

---------------------------------------------------------------------------
(* LoadProgram: a text is the sequence of the code points of its           *)
(* characters.                                                             *)

\* unicode.IsSpace: tab, line feed, vertical tab, form feed, carriage
\* return, space, U+0085 and U+00A0, and the code points above Latin-1 with
\* the White_Space property
WhiteSpace ==
    (\h09..\h0D) \cup {\h20, \h85, \hA0, \h1680} \cup (\h2000..\h200A)
    \cup {\h2028, \h2029, \h202F, \h205F, \h3000}

\* the digits 0-9, A-F and a-f
HexChars == (\h30..\h39) \cup (\h41..\h46) \cup (\h61..\h66)

\* the signs + and -
PlusSign == {\h2B}

MinusSign == {\h2D}

\* the value of a hexadecimal digit, upper or lower case
HexValue(ch) ==
    CASE ch \in \h30..\h39 -> ch - \h30
      [] ch \in \h41..\h46 -> ch - \h41 + 10
      [] ch \in \h61..\h66 -> ch - \h61 + 10

\* strings.Fields: the maximal runs of characters that are not white space,
\* in the order of the text
Fields(text) ==
    LET solid(i) == text[i] \notin WhiteSpace
        starts   == {i \in 1..Len(text) : solid(i) /\ (i = 1 \/ ~solid(i - 1))}
        first(k) == CHOOSE i \in starts : Cardinality({j \in starts : j < i}) = k - 1
        last(i)  == CHOOSE j \in i..Len(text) :
                        /\ \A m \in i..j : solid(m)
                        /\ (j = Len(text) \/ ~solid(j + 1))
    IN  [k \in 1..Cardinality(starts) |-> SubSeq(text, first(k), last(first(k)))]

\* strconv.ParseInt(s, 16, 16): an optional sign, then hexadecimal digits; an
\* error when there is no digit, a character is no digit, or the value is
\* outside -32768..32767
ParseInt(s) ==
    LET signed == s # <<>> /\ s[1] \in PlusSign \cup MinusSign
        digits == IF signed THEN Tail(s) ELSE s
        v[i \in 0..Len(digits)] ==
            IF i = 0 THEN 0
            ELSE IF digits[i] \in HexChars
                 THEN IF v[i - 1] > 32768 THEN v[i - 1]
                      ELSE v[i - 1] * 16 + HexValue(digits[i])
                 ELSE 0
        mag    == v[Len(digits)]
        val    == IF signed /\ s[1] \in MinusSign THEN 0 - mag ELSE mag
    IN  IF digits = <<>> \/ \E i \in DOMAIN digits : digits[i] \notin HexChars
        THEN [val |-> 0, err |-> TRUE]
        ELSE IF val > 32767 \/ val < 0 - 32768
        THEN [val |-> 0, err |-> TRUE]
        ELSE [val |-> val, err |-> FALSE]

\* byte(b) of an int64 in the 16-bit range
ByteOf(b) == (b + 65536) % 256

\* the fields of the text up to the first that does not parse, as bytes
ParsedBytes(text) ==
    LET fs   == Fields(text)
        bad  == {i \in 1..Len(fs) : ParseInt(fs[i]).err}
        n    == IF bad = {} THEN Len(fs)
                ELSE (CHOOSE i \in bad : \A j \in bad : i <= j) - 1
    IN  [bytes |-> [i \in 1..n |-> ByteOf(ParseInt(fs[i]).val)],
         err   |-> bad # {}]

\* LoadProgram storing through Cpu.Write
LoadProgramByWrite(c, text, addr) ==
    LET p == ParsedBytes(text)
        h[i \in 0..Len(p.bytes)] ==
            IF i = 0 THEN c
            ELSE Write(h[i - 1], ToWord(addr + i - 1), p.bytes[i])
    IN  [c |-> h[Len(p.bytes)], err |-> p.err]

\* LoadProgram: field i goes to FakeRam[addr+uint16(i)]; a field that does
\* not parse panics, the fields before it stored
LoadProgram(c, text, addr) ==
    LET p == ParsedBytes(text)
    IN  [c   |-> [c EXCEPT !.Bus.FakeRam = LoadBytes(@, p.bytes, addr)],
         err |-> p.err]

\* the text of TestLoadProgram, 28 hex pairs
ThirtyText ==
    <<\h41, \h32, \h20, \h30, \h41, \h20, \h38, \h45, \h20, \h30, \h30, \h20,
      \h30, \h30, \h20, \h41, \h32, \h20, \h30, \h33, \h20, \h38, \h45, \h20,
      \h30, \h31, \h20, \h30, \h30, \h20, \h41, \h43, \h20, \h30, \h30, \h20,
      \h30, \h30, \h20, \h41, \h39, \h20, \h30, \h30, \h20, \h31, \h38, \h20,
      \h36, \h44, \h20, \h30, \h31, \h20, \h30, \h30, \h20, \h38, \h38, \h20,
      \h44, \h30, \h20, \h46, \h41, \h20, \h38, \h44, \h20, \h30, \h32, \h20,
      \h30, \h30, \h20, \h45, \h41, \h20, \h45, \h41, \h20, \h45, \h41>>

MaxLoads == 1

\* hex pairs with the bytes they stand for
PairSamples ==
    {[chars |-> <<\h30, \h30>>, val |-> \h00],
     [chars |-> <<\h66, \h46>>, val |-> \hFF],
     [chars |-> <<\h41, \h32>>, val |-> \hA2]}

\* a space; a line feed and a form feed; a tab and a no-break space
Separators == {<<\h20>>, <<\h0A, \h0C>>, <<\h09, \hA0>>}

Margins == {<<>>, <<\h20>>}

\* texts of two pairs, and the text of TestLoadProgram, with their bytes
LoadTexts ==
    {[text |-> m \o p.chars \o s \o q.chars \o m, bytes |-> <<p.val, q.val>>] :
        p \in PairSamples, q \in PairSamples, s \in Separators, m \in Margins}
    \cup {[text |-> ThirtyText, bytes |-> ThirtyProgram]}

LoadAddrs == {ProgBase, \hFFFF, \h01FE}

\* the register profiles with the stack pointer at 0xFD or 0x00
LoadProfiles == {r \in Profiles : r[4] \in {\hFD, \h00}}

\* the Cpu of TestLoadProgram, or one with memory and registers in use
InitLoad ==
    \/ InitWith(ZeroCpu)
    \/ \E r \in LoadProfiles : InitWith(Setup(Background, r, ProgBase))

CallLoadProgram(n) ==
    /\ Len(hist) < n
    /\ \E t \in LoadTexts, a \in LoadAddrs :
          Called("load", <<t.text, a, t.bytes>>,
                 LoadProgram(cpu, t.text, a).c, LoadProgram(cpu, t.text, a).err)

NextLoad == CallLoadProgram(MaxLoads)

SpecLoad == InitLoad /\ [][NextLoad]_vars

\* the addresses the last LoadProgram was to fill
LoadedAddrs == {ToWord(arg[2] + i - 1) : i \in 1..Len(arg[3])}

\* C23: LoadProgram of a text of n white-space separated hex pairs stores the
\* value of pair i at (addr + i) mod 65536 and leaves every other byte of
\* memory and every register as it was; the 28 pairs of the example at 0x8000
\* give 0x8000=0xA2, 0x801B=0xEA and leave 0x801C=0.
C23_LoadProgramStores ==
    LastOp = "load" =>
        /\ ~err
        /\ \A i \in 1..Len(arg[3]) : Read(cpu, ToWord(arg[2] + i - 1)) = arg[3][i]
        /\ \A a \in Cells \ LoadedAddrs : Read(cpu, a) = Read(pre, a)
        /\ [cpu EXCEPT !.Bus = pre.Bus] = pre
        /\ (arg[1] = ThirtyText /\ arg[2] = \h8000) =>
              /\ Read(cpu, \h8000) = \hA2
              /\ Read(cpu, \h801B) = \hEA
              /\ Read(cpu, \h801C) = 0

\* C23, its case: two pairs loaded at 0xFFFF, the second landing at 0x0000
\* over a different byte
C23_LoadedAcrossTop ==
    /\ LastOp = "load"
    /\ arg[2] = \hFFFF
    /\ arg[3] = <<\hFF, \hA2>>
    /\ Read(pre, \h0000) = \h03
    /\ Read(pre, \hFFFF) = \hA0
    /\ \E i \in DOMAIN arg[1] : arg[1][i] = \hA0
    /\ Read(cpu, \hFFFF) = \hFF
    /\ Read(cpu, \h0000) = \hA2

---------------------------------------------------------------------------
(* The decoder's addresses and the cycles charged for them.                *)

\* the addressing mode of the opcode the last tick ran
PreMode == Opcodes[PreByte].AddressingMode

\* the operand bytes that follow that opcode
PreOperand1 == Read(pre, ToWord(pre.ProgramCounter + 1))

PreOperand2 == Read(pre, ToWord(pre.ProgramCounter + 2))

\* the little-endian word at a zero-page pointer, wrapping within page 0
ZeroPageWord(p) == Read(pre, (p + 1) % 256) * 256 + Read(pre, p % 256)

\* the un-indexed base address of an indexed mode, and its index register
IndexedBase ==
    IF PreMode = "IndirectY" THEN ZeroPageWord(PreOperand1)
    ELSE PreOperand2 * 256 + PreOperand1

IndexOf == IF PreMode = "AbsoluteX" THEN pre.X ELSE pre.Y

IndexedCrossed ==
    ToWord(IndexedBase + IndexOf) \div 256 # IndexedBase \div 256

\* C24: for every opcode in AbsoluteX, AbsoluteY or IndirectY mode, tick
\* leaves base_cycles + 1 pending when the indexed address lies on another
\* page than the un-indexed base, and base_cycles otherwise; and PageCrossed
\* is clear after every tick.
C24_PageCrossCycles ==
    (LastOp = "tick" /\ ~err) =>
        /\ ~cpu.PageCrossed
        /\ PreMode \in {"AbsoluteX", "AbsoluteY", "IndirectY"} =>
              cpu.Cycles = Opcodes[PreByte].Cycles
                           + (IF IndexedCrossed THEN 1 ELSE 0)

---------------------------------------------------------------------------
(* The eight branches with every offset byte, in the middle, at the        *)
(* bottom and at the top of the address space.                             *)

MaxBranchTicks == 1

BranchBases == {ProgBase, \h0010, \hFFF0, \hFFFE}

\* status bytes with C, Z, V, N all clear and all set
BranchFlags == {\h20, \hE3}

InitBranch ==
    \E b \in BranchBytes, d \in Byte, base \in BranchBases, p \in BranchFlags :
        InitWith(Setup(LoadBytes(Background, <<b, d>>, base),
                       <<\h00, \h00, \h00, \hFD, p>>, base))

NextBranch == Tick(MaxBranchTicks)

SpecBranch == InitBranch /\ [][NextBranch]_vars

\* C25: for a branch at address a with offset byte d, the decoder's target is
\* (a + 2 + signext(d)) mod 65536 for every d in 0..255; a taken branch leaves
\* PC at the target, a branch not taken leaves PC = (a + 2) mod 65536.
C25_BranchTarget ==
    (LastOp = "tick" /\ ~err /\ PreByte \in BranchBytes) =>
        /\ cpu.AbsAddress = BranchTarget
        /\ cpu.ProgramCounter = IF BranchTaken(PreByte, pre.Flags)
                                THEN BranchTarget
                                ELSE FallThrough

\* C25, its case: BNE with offset 0x80 taken from 0x0010, the target
\* 0x0012 - 128 wrapping below 0 to 0xFF92
C25_TakenBackwardsBelowZero ==
    /\ LastOp = "tick"
    /\ PreByte = \hD0
    /\ pre.ProgramCounter = \h0010
    /\ PreOperand1 = \h80
    /\ ~pre.Flags.Zero
    /\ cpu.ProgramCounter = \hFF92

\* C26: zero-page pointers are read little-endian. In IndirectX mode the
\* effective address has its low byte from bus[(ptr+X) & 0xFF] and its high
\* byte from bus[(ptr+X+1) & 0xFF]; in IndirectY mode the base word has its
\* low byte from bus[ptr] and its high byte from bus[(ptr+1) & 0xFF], and the
\* effective address is (base + Y) mod 65536.
C26_ZeroPagePointers ==
    (LastOp = "tick" /\ ~err) =>
        /\ PreMode = "IndirectX" =>
              cpu.AbsAddress = ZeroPageWord(PreOperand1 + pre.X)
        /\ PreMode = "IndirectY" =>
              cpu.AbsAddress = ToWord(ZeroPageWord(PreOperand1) + pre.Y)

---------------------------------------------------------------------------
(* decode called on its own, the program counter at the operand bytes.     *)

MaxDecodes == 1

AddressingModes ==
    {"Implied", "Accumulator", "Immediate", "ZeroPage", "ZeroPageX",
     "ZeroPageY", "Relative", "Absolute", "AbsoluteX", "AbsoluteY",
     "IndirectX", "IndirectY", "Indirect"}

InitDecode ==
    \E lo \in OperandLo, hi \in OperandHi, r \in Profiles :
        InitWith(Setup(LoadBytes(Background, <<lo, hi>>, ProgBase), r, ProgBase))

CallDecode(n) ==
    /\ Len(hist) < n
    /\ \E a \in AddressingModes : Called("decode", <<a>>, decode(cpu, a), FALSE)

NextDecode == CallDecode(MaxDecodes)

SpecDecode == InitDecode /\ [][NextDecode]_vars

\* the pointer an Indirect decode read from its two operand bytes
IndirectPtr ==
    Read(pre, ToWord(pre.ProgramCounter + 1)) * 256 + Read(pre, pre.ProgramCounter)

\* C27: in Indirect mode with the pointer ptr read little-endian from the two
\* operand bytes, the effective address has its low byte from bus[ptr] and
\* its high byte from bus[(ptr & 0xFF00) | ((ptr + 1) & 0x00FF)], the start
\* of the same page when the low byte of ptr is 0xFF; PC advances by 2.
C27_IndirectPageWrap ==
    (LastOp = "decode" /\ arg[1] = "Indirect") =>
        LET ptr    == IndirectPtr
            highAt == (ptr \div 256) * 256 + ((ptr + 1) % 256)
        IN  /\ cpu.AbsAddress = Read(pre, highAt) * 256 + Read(pre, ptr)
            /\ cpu.ProgramCounter = ToWord(pre.ProgramCounter + 2)

\* C27, its case: the pointer 0x02FF, whose high byte comes from 0x0200 and
\* not from 0x0300
C27_PointerAtPageEnd ==
    /\ LastOp = "decode"
    /\ arg[1] = "Indirect"
    /\ IndirectPtr = \h02FF
    /\ Read(pre, \h0300) = \hAB
    /\ cpu.AbsAddress = \h1234

\* the read-modify-write instruction the last tick ran, if it ran one
RmwRan ==
    /\ LastOp = "tick"
    /\ ~err
    /\ Opcodes[PreByte].Name \in {"ASL", "LSR", "ROL", "ROR", "INC", "DEC"}

\* C28: ASL, LSR, ROL, ROR, INC and DEC store the value they compute (left in
\* the operand latch M): in Accumulator mode A holds it afterwards, in every
\* memory mode bus[eff_addr] holds it.
C28_ResultWrittenBack ==
    RmwRan =>
        IF PreMode = "Accumulator"
        THEN cpu.Accumulator = cpu.M
        ELSE Read(cpu, cpu.AbsAddress) = cpu.M

---------------------------------------------------------------------------
(* The shifts and rotates called on every operand byte and carry.          *)

MaxShiftCalls == 1

ShiftInstructions == {"ASL", "LSR", "ROL", "ROR"}

\* the operand latch holds v, as decode leaves it; A differs from it
InitShift ==
    \E v \in Byte, carry \in BOOLEAN :
        InitWith([ZeroCpu EXCEPT !.M = v, !.Accumulator = ToByte(v + \h55),
                                 !.Flags.Carry = carry, !.Flags.Unused = TRUE])

CallShift(n) ==
    /\ Len(hist) < n
    /\ \E i \in ShiftInstructions : Called(i, <<>>, Instruction(i, cpu), FALSE)

NextShift == CallShift(MaxShiftCalls)

SpecShift == InitShift /\ [][NextShift]_vars

\* C29: ASL and LSR shift by exactly one bit for every byte v: ASL produces
\* (v << 1) & 0xFF with C = old bit 7, LSR produces v >> 1 with C = old bit 0;
\* Z and N are set from the produced value.
C29_ShiftByOne ==
    /\ LastOp = "ASL" =>
          /\ cpu.M = (pre.M * 2) % 256
          /\ cpu.Flags.Carry = (pre.M >= 128)
    /\ LastOp = "LSR" =>
          /\ cpu.M = pre.M \div 2
          /\ cpu.Flags.Carry = (pre.M % 2 = 1)
    /\ LastOp \in {"ASL", "LSR"} =>
          /\ cpu.Flags.Zero = (cpu.M = 0)
          /\ cpu.Flags.Negative = (cpu.M >= 128)

\* C30: ROL and ROR rotate through the carry held before the instruction:
\* for every byte v and old carry c, ROL produces ((v << 1) & 0xFF) | c with
\* C = old bit 7, ROR produces (v >> 1) | (c << 7) with C = old bit 0.
C30_RotateThroughCarry ==
    LET c == IF pre.Flags.Carry THEN 1 ELSE 0
    IN  /\ LastOp = "ROL" =>
              /\ cpu.M = ((pre.M * 2) % 256) + c
              /\ cpu.Flags.Carry = (pre.M >= 128)
        /\ LastOp = "ROR" =>
              /\ cpu.M = (pre.M \div 2) + c * 128
              /\ cpu.Flags.Carry = (pre.M % 2 = 1)

---------------------------------------------------------------------------
(* BIT and the compares called on every register byte against sampled      *)
(* operands.                                                               *)

MaxTestCalls == 1

TestInstructions == {"BIT", "CMP", "CPX", "CPY"}

\* status bytes with C, Z, V, N all clear and all set
TestFlags == {\h20, \hE3}

\* A, X and Y each run through all 256 values and differ from one another
InitTest ==
    \E a \in Byte, m \in AluBytes, p \in TestFlags :
        InitWith([ZeroCpu EXCEPT
                    !.Accumulator = a,
                    !.X = ToByte(a + \h55),
                    !.Y = ToByte(a + \hAA),
                    !.M = m,
                    !.Stack = \hFD,
                    !.AbsAddress = \h0002,
                    !.Flags = FlagsOf(p),
                    !.Bus.FakeRam = Store(ZeroCpu.Bus.FakeRam, \h0002, m)])

CallTest(n) ==
    /\ Len(hist) < n
    /\ \E i \in TestInstructions : Called(i, <<>>, Instruction(i, cpu), FALSE)

NextTest == CallTest(MaxTestCalls)

SpecTest == InitTest /\ [][NextTest]_vars

\* C31: for all A and M, BIT sets Z = 1 exactly when (A and M) = 0, N = bit 7
\* of M and V = bit 6 of M, and leaves A, the memory and the carry flag
\* unchanged.
C31_BitFlags ==
    LastOp = "BIT" =>
        /\ cpu.Flags.Zero = (BitAnd(pre.Accumulator, pre.M) = 0)
        /\ cpu.Flags.Negative = (Bit(pre.M, 7) = 1)
        /\ cpu.Flags.Overflow = (Bit(pre.M, 6) = 1)
        /\ cpu.Accumulator = pre.Accumulator
        /\ cpu.Bus = pre.Bus
        /\ cpu.Flags.Carry = pre.Flags.Carry

\* the register the last compare read
ComparedRegister ==
    CASE LastOp = "CMP" -> pre.Accumulator
      [] LastOp = "CPX" -> pre.X
      [] LastOp = "CPY" -> pre.Y

\* C32: for every register value r (A for CMP, X for CPX, Y for CPY) and
\* operand M, the compare sets C = 1 iff r >= M, Z = 1 iff r = M and N = bit 7
\* of (r - M) mod 256, and leaves A, X, Y, S, V and the memory unchanged.
C32_CompareFlags ==
    LastOp \in {"CMP", "CPX", "CPY"} =>
        LET r == ComparedRegister
        IN  /\ cpu.Flags.Carry = (r >= pre.M)
            /\ cpu.Flags.Zero = (r = pre.M)
            /\ cpu.Flags.Negative = (((r + 256 - pre.M) % 256) >= 128)
            /\ cpu.Accumulator = pre.Accumulator
            /\ cpu.X = pre.X
            /\ cpu.Y = pre.Y
            /\ cpu.Stack = pre.Stack
            /\ cpu.Flags.Overflow = pre.Flags.Overflow
            /\ cpu.Bus = pre.Bus

\* C32, its case: CPX of a register equal to the operand, from flags with C
\* and Z clear
C32_ComparedEqual ==
    /\ LastOp = "CPX"
    /\ pre.X = \h80
    /\ pre.M = \h80
    /\ ~pre.Flags.Carry
    /\ ~pre.Flags.Zero
    /\ cpu.Flags.Carry
    /\ cpu.Flags.Zero
    /\ ~cpu.Flags.Negative

---------------------------------------------------------------------------
(* Stores, subroutine call and return, PHP and the X/S transfers, each     *)
(* executed by a tick.                                                     *)

\* the instruction the last tick executed
TickRan(names) ==
    /\ LastOp = "tick"
    /\ ~err
    /\ Opcodes[PreByte].Name \in names

\* the register a store instruction writes
StoredRegister ==
    CASE Opcodes[PreByte].Name = "STA" -> pre.Accumulator
      [] Opcodes[PreByte].Name = "STX" -> pre.X
      [] Opcodes[PreByte].Name = "STY" -> pre.Y

\* C33: STA, STX and STY make bus[eff_addr] equal to A, X and Y respectively,
\* change no other memory cell, and leave all eight flags and the registers
\* A, X, Y and S unchanged.
C33_StoreWrites ==
    TickRan({"STA", "STX", "STY"}) =>
        /\ Read(cpu, cpu.AbsAddress) = StoredRegister
        /\ \A a \in Cells \ {cpu.AbsAddress} : Read(cpu, a) = Read(pre, a)
        /\ cpu.Flags = pre.Flags
        /\ cpu.Accumulator = pre.Accumulator
        /\ cpu.X = pre.X
        /\ cpu.Y = pre.Y
        /\ cpu.Stack = pre.Stack

\* C34: JSR fetched at address a with absolute operand t pushes the high byte
\* and then the low byte of a+2 onto the page-1 stack, decreasing S by 2, and
\* leaves PC = t.
C34_JsrPushesAndJumps ==
    TickRan({"JSR"}) =>
        LET ret == ToWord(pre.ProgramCounter + 2)
            s   == pre.Stack
        IN  /\ Read(cpu, 256 + s) = ret \div 256
            /\ Read(cpu, 256 + ToByte(s + 255)) = ret % 256
            /\ cpu.Stack = ToByte(s + 254)
            /\ cpu.ProgramCounter = PreOperand2 * 256 + PreOperand1

\* C35: RTS pulls the low byte and then the high byte from the page-1 stack,
\* S increasing by 2, and sets PC to that word plus 1 modulo 65536.
C35_RtsPullsWord ==
    TickRan({"RTS"}) =>
        LET s  == pre.Stack
            lo == Read(pre, 256 + ToByte(s + 1))
            hi == Read(pre, 256 + ToByte(s + 2))
        IN  /\ cpu.Stack = ToByte(s + 2)
            /\ cpu.ProgramCounter = ToWord(hi * 256 + lo + 1)

\* C37: the byte PHP writes to the stack is the packed status of the register
\* with bit 4 (B) and bit 5 (U) both 1 whatever the register holds for them,
\* and PHP changes no flag in the register.
C37_PhpPushesBreakUnused ==
    TickRan({"PHP"}) =>
        LET f == pre.Flags
            b(x) == IF x THEN 1 ELSE 0
            packed == b(f.Carry) + 2 * b(f.Zero) + 4 * b(f.DisableInterrupt)
                      + 8 * b(f.Decimal) + 16 + 32 + 64 * b(f.Overflow)
                      + 128 * b(f.Negative)
        IN  /\ Read(cpu, 256 + pre.Stack) = packed
            /\ cpu.Flags = pre.Flags

\* C38: TXS sets S to X and changes no flag, TSX sets X to S, leaves S
\* unchanged and sets Z and N from the new X; neither touches memory.
C38_StackPointerTransfers ==
    /\ TickRan({"TXS"}) =>
          /\ cpu.Stack = pre.X
          /\ cpu.Flags = pre.Flags
          /\ cpu.Bus = pre.Bus
    /\ TickRan({"TSX"}) =>
          /\ cpu.X = pre.Stack
          /\ cpu.Stack = pre.Stack
          /\ cpu.Flags.Zero = (pre.Stack = 0)
          /\ cpu.Flags.Negative = (pre.Stack >= 128)
          /\ cpu.Bus = pre.Bus

---------------------------------------------------------------------------
(* Interrupt entry followed by the handler's RTI: both handlers consist of *)
(* a single RTI, the interrupted program of NOPs.                          *)

MaxReturnSteps == 2

\* where the interrupted program sits
ReturnBases == {ProgBase, \h0210, \h4000, \hC000}

InitReturn ==
    \E base \in ReturnBases, r \in Profiles :
        InitWith(Setup(LoadBytes(LoadBytes(LoadBytes(Background, <<\h40>>, \h9000),
                                           <<\h40>>, \hA000),
                                 <<\hEA, \hEA>>, base),
                       r, base))

NextReturn ==
    \/ Tick(MaxReturnSteps)
    \/ Irq(MaxReturnSteps)
    \/ Nmi(MaxReturnSteps)

SpecReturn == InitReturn /\ [][NextReturn]_vars

\* an interrupt entry was taken from the start state and the handler's RTI
\* has run
EnteredAndReturned ==
    /\ \/ hist = <<"nmi", "tick">>
       \/ hist = <<"irq", "tick">> /\ ~start.Flags.DisableInterrupt
    /\ ~err

\* C36: RTI pulls P, then the PC low byte, then the PC high byte, all from
\* the page-1 stack, with no +1 correction; after an NMI or unmasked IRQ entry
\* taken with program counter p and stack pointer s the handler's RTI restores
\* PC = p and S = s.
C36_RtiRestores ==
    /\ TickRan({"RTI"}) =>
          LET s == pre.Stack
          IN  /\ cpu.Stack = ToByte(s + 3)
              /\ cpu.ProgramCounter =
                    Read(pre, 256 + ToByte(s + 3)) * 256
                    + Read(pre, 256 + ToByte(s + 2))
    /\ EnteredAndReturned =>
          /\ cpu.ProgramCounter = start.ProgramCounter
          /\ cpu.Stack = start.Stack

---------------------------------------------------------------------------
(* Package mask: bit ranges of a byte, position 1 the most significant     *)
(* bit.  Shifts are byte-wide: a count of 8 or more leaves 0, and index    *)
(* arithmetic wraps modulo 256.                                            *)

ShiftLeft(b, k) == IF k >= 8 THEN 0 ELSE (b * (2 ^ k)) % 256

ShiftRight(b, k) == IF k >= 8 THEN 0 ELSE b \div (2 ^ k)

\* the number of leading zero bits of x, 8 for x = 0
LeadingZeros8(x) == 8 - Cardinality({i \in 0..7 : 2 ^ i <= x})

\* TRUE when the range check panics
checkByteRange(first, last) == first > last

Last(b, n) == BitAnd(b, ToByte(ShiftLeft(1, n) + 255))

First(b, n) == Last(ShiftRight(b, ToByte(8 + 256 - n)), n)

\* the range with its tail taken from the position after start
RangeExclusive(b, first, last) ==
    First(Last(b, ToByte(8 + 256 - first)), last)

Range(b, first, last) ==
    LET tail == Last(b, ToByte(8 + 256 - ToByte(first + 255)))
    IN  First(tail, last)

Set(b, pos, bits) ==
    IF bits = 0 THEN b
    ELSE LET bitlen  == LeadingZeros8(bits)
             aligned == ShiftLeft(bits, bitlen)
             placed  == ShiftRight(aligned, ToByte(pos + 255))
         IN  BitOr(b, placed)

MaxMaskCalls == 1

\* the bit positions of a byte
MaskIndices == 1..8

\* second arguments: a range's end, or the new bits of a Set
MaskSeconds == 0..8 \cup {\h0A, \h55, \hFF}

\* arg holds the byte, the first index, the second argument and the value
\* the last call returned
InitMask ==
    /\ cpu = ZeroCpu
    /\ start = ZeroCpu
    /\ pre = ZeroCpu
    /\ err = FALSE
    /\ hist = <<>>
    /\ \E b \in Byte, p \in MaskIndices, q \in MaskSeconds : arg = <<b, p, q, 0>>

MaskCalled(name, result, panicked) ==
    Called(name, <<arg[1], arg[2], arg[3], result>>, cpu, panicked)

CallLast(n) ==
    /\ Len(hist) < n
    /\ MaskCalled("Last", Last(arg[1], arg[2]), FALSE)

CallFirst(n) ==
    /\ Len(hist) < n
    /\ MaskCalled("First", First(arg[1], arg[2]), FALSE)

CallRange(n) ==
    /\ Len(hist) < n
    /\ IF checkByteRange(arg[2], arg[3])
       THEN MaskCalled("Range", 0, TRUE)
       ELSE MaskCalled("Range", Range(arg[1], arg[2], arg[3]), FALSE)

CallSet(n) ==
    /\ Len(hist) < n
    /\ MaskCalled("Set", Set(arg[1], arg[2], arg[3]), FALSE)

NextMask ==
    \/ CallLast(MaxMaskCalls)
    \/ CallFirst(MaxMaskCalls)
    \/ CallRange(MaxMaskCalls)
    \/ CallSet(MaxMaskCalls)

SpecMask == InitMask /\ [][NextMask]_vars

\* the bit of byte x at position i, position 1 the most significant
BitAt(x, i) == (x \div (2 ^ (8 - i))) % 2

\* the length of the significant part of a non-zero byte
SignificantLength(x) == CHOOSE l \in 1..8 : 2 ^ (l - 1) <= x /\ x < 2 ^ l

\* b with the positions pos..min(pos+L-1, 8) holding the leading bits of the
\* significant part of bits
Replaced(b, pos, bits) ==
    LET L == SignificantLength(bits)
        bitOf(i) == IF pos <= i /\ i <= pos + L - 1
                    THEN (bits \div (2 ^ (L - 1 - (i - pos)))) % 2
                    ELSE BitAt(b, i)
        f[i \in 1..9] == IF i = 9 THEN 0 ELSE bitOf(i) * (2 ^ (8 - i)) + f[i + 1]
    IN  f[1]

\* C39: for bits # 0 mask.Set(b, pos, bits) returns b with the positions
\* pos..min(pos+L-1, 8) replaced by the leading bits of the significant part
\* of bits (L its length), truncating what does not fit, every other bit of b
\* unchanged; for bits = 0 it returns b.
C39_SetReplaces ==
    LastOp = "Set" =>
        arg[4] = (IF arg[3] = 0 THEN arg[1] ELSE Replaced(arg[1], arg[2], arg[3]))

\* C40: for every byte b and 1 <= start <= end <= 8, mask.Range(b, start,
\* end) is (b >> (8 - end)) & (2^(end-start+1) - 1); mask.Last(b, n) is the n
\* least significant bits and mask.First(b, n) the n most significant bits
\* right-aligned, n = 8 included.
C40_RangeLastFirst ==
    /\ (LastOp = "Range" /\ arg[2] <= arg[3] /\ arg[3] <= 8) =>
          /\ ~err
          /\ arg[4] = (arg[1] \div (2 ^ (8 - arg[3]))) % (2 ^ (arg[3] - arg[2] + 1))
    /\ LastOp = "Last" => arg[4] = arg[1] % (2 ^ arg[2])
    /\ LastOp = "First" => arg[4] = arg[1] \div (2 ^ (8 - arg[2]))

\* C40, its case: the range 2..4 of 0b1101_1000 is 0b101
C40_MiddleRange ==
    /\ LastOp = "Range"
    /\ arg = <<\hD8, 2, 4, 5>>
    /\ ~err

====
